---- MODULE Spec2Model ----
(***************************************************************************)
(* A model of serial-mock (src/src/lib.rs): MockableSerial, the mock of a  *)
(* serial port that hands out pre-loaded response frames one byte per      *)
(* read, and MockableSerialBuilder.                                        *)
(*                                                                         *)
(* The state is the set of MockableSerial values a test holds, by handle:  *)
(* "m" is the value a constructor returns and "port" the value             *)
(* m.open_native() returns, as in the tests of lib.rs.  Every public       *)
(* operation is one action.  A panic (an unwrap of None) is recorded as    *)
(* the call's result "panic"; the receiver keeps what the call had already *)
(* assigned when it panicked.                                              *)
(***************************************************************************)
EXTENDS Integers, Sequences, FiniteSets, TLC

VARIABLES
    port,       \* handle -> MockableSerial value (the struct's nine fields)
    ctor,       \* the arguments the constructor of "m" was called with
    last,       \* the last call: operation, receiver, result, <<buff[0]>> if written
    enqueued,   \* handle -> the frames passed to add_response so far, in order
    delivered   \* handle -> the bytes read has put in buff[0] so far, in order

vars == <<port, ctor, last, enqueued, delivered>>

----------------------------------------------------------------------------
(* Bounds and input domains *)

\* longest frame passed to add_response
MaxFrameLen == 2
\* most frames enqueued, summed over the live values (a copy's count again)
MaxFrames == 2

\* the handles of the tests: let m = ...::new(..); let port = m.open_native();
Handles == {"m", "port"}

\* 0x23, the stop byte of test_read and test_multiple_responses, and 0x65, a
\* data byte of the tests
StopBytes == {35}
Bytes == {35, 101}
Addresses == {"/dev/null"}
Bauds == {115200}
ReadNBytes == {1}

\* the caller's buffer after a call that wrote nothing to buff[0]
NoByte == <<>>

RECURSIVE SeqsUpTo(_, _)
SeqsUpTo(S, n) ==
    IF n = 0 THEN {<<>>}
    ELSE LET shorter == SeqsUpTo(S, n - 1)
         IN  shorter \cup {Append(s, x) : s \in shorter, x \in S}

\* the byte slices a test passes to add_response
Frames == SeqsUpTo(Bytes, MaxFrameLen)
\* the byte vectors a test passes to write
WriteData == {<<>>, <<101, 35>>}
\* initial_response_data: None, or Some collection of frames
None == [some |-> FALSE, data |-> <<>>]
Some(d) == [some |-> TRUE, data |-> d]
InitialData == {None} \cup {Some(d) : d \in SeqsUpTo(Frames, MaxFrames)}

CtorArgs == [address : Addresses, baud : Bauds, stop_byte : StopBytes,
             read_n_bytes : ReadNBytes]

----------------------------------------------------------------------------
(* The operations of MockableSerial, as functions of the receiver *)

\* SerialMock::new
\* (NewOpFailing: actual_success starts as bool's default, false)
NewOpFailing(a) ==
    [address         |-> a.address,
     baud            |-> a.baud,
     stop_byte       |-> a.stop_byte,
     read_n_bytes    |-> a.read_n_bytes,
     actual_success  |-> FALSE,
     actual_response |-> <<>>,
     response_queue  |-> <<>>,
     last_read_index |-> 0,
     success_queue   |-> <<>>]

NewOp(a) ==
    [address         |-> a.address,
     baud            |-> a.baud,
     stop_byte       |-> a.stop_byte,
     read_n_bytes    |-> a.read_n_bytes,
     actual_success  |-> TRUE,
     actual_response |-> <<>>,
     response_queue  |-> <<>>,
     last_read_index |-> 0,
     success_queue   |-> <<>>]

\* open_native: a field-by-field clone of self
\* (OpenNativeFreshQueue: the copy starts with a new, empty response queue;
\*  OpenNativeSwapsConfig: baud and read_n_bytes, both u32, are exchanged)
OpenNativeFreshQueue(m) ==
    [address         |-> m.address,
     baud            |-> m.baud,
     stop_byte       |-> m.stop_byte,
     read_n_bytes    |-> m.read_n_bytes,
     actual_success  |-> m.actual_success,
     actual_response |-> m.actual_response,
     response_queue  |-> <<>>,
     last_read_index |-> m.last_read_index,
     success_queue   |-> m.success_queue]

OpenNativeSwapsConfig(m) ==
    [address         |-> m.address,
     baud            |-> m.read_n_bytes,
     stop_byte       |-> m.stop_byte,
     read_n_bytes    |-> m.baud,
     actual_success  |-> m.actual_success,
     actual_response |-> m.actual_response,
     response_queue  |-> m.response_queue,
     last_read_index |-> m.last_read_index,
     success_queue   |-> m.success_queue]

OpenNativeOp(m) ==
    [address         |-> m.address,
     baud            |-> m.baud,
     stop_byte       |-> m.stop_byte,
     read_n_bytes    |-> m.read_n_bytes,
     actual_success  |-> m.actual_success,
     actual_response |-> m.actual_response,
     response_queue  |-> m.response_queue,
     last_read_index |-> m.last_read_index,
     success_queue   |-> m.success_queue]

\* write: Ok(()) and nothing else; self is borrowed immutably
\* (WriteRestartsFrame: write rewinds the read cursor)
WriteRestartsFrame(m, b) ==
    [self |-> [m EXCEPT !.last_read_index = 0], ret |-> "Ok"]

WriteOp(m, b) == [self |-> m, ret |-> "Ok"]

\* add_response: copy r byte by byte into new_resp, push_back onto the queue
\* (CopyBytesReversed: each byte is inserted at the front of new_resp)
RECURSIVE CopyBytesReversed(_, _)
CopyBytesReversed(new_resp, r) ==
    IF r = <<>> THEN new_resp
    ELSE CopyBytesReversed(<<Head(r)>> \o new_resp, Tail(r))

RECURSIVE CopyBytes(_, _)
CopyBytes(new_resp, r) ==
    IF r = <<>> THEN new_resp
    ELSE CopyBytes(Append(new_resp, Head(r)), Tail(r))

AddResponseOp(m, r) ==
    [m EXCEPT !.response_queue = Append(@, CopyBytes(<<>>, r))]

\* read, first block: fetch a new item from the queue if there is nothing to read
\* (FetchFromBack: pop_back in place of pop_front;
\*  FetchAlways: the front frame is appended whenever the queue is non-empty;
\*  FetchSkipsEmpty: empty frames at the front are dropped before the fetch;
\*  FetchKeepsQueue: the front frame is cloned and stays in the queue;
\*  FetchAtEnd: an exhausted active frame is replaced by the front frame)
FetchAlways(m) ==
    IF m.response_queue # <<>>
    THEN [m EXCEPT !.actual_response = @ \o Head(m.response_queue),
                   !.response_queue  = Tail(@)]
    ELSE m

RECURSIVE DropEmpty(_)
DropEmpty(q) ==
    IF q # <<>> /\ Head(q) = <<>> THEN DropEmpty(Tail(q)) ELSE q

FetchSkipsEmpty(m) ==
    LET q == DropEmpty(m.response_queue)
    IN  IF m.actual_response = <<>> /\ q # <<>>
        THEN [m EXCEPT !.actual_response = @ \o Head(q),
                       !.response_queue  = Tail(q)]
        ELSE m

FetchKeepsQueue(m) ==
    IF m.actual_response = <<>> /\ m.response_queue # <<>>
    THEN [m EXCEPT !.actual_response = @ \o Head(m.response_queue)]
    ELSE m

FetchAtEnd(m) ==
    IF /\ \/ m.actual_response = <<>>
          \/ m.last_read_index >= Len(m.actual_response)
       /\ m.response_queue # <<>>
    THEN [m EXCEPT !.actual_response = Head(m.response_queue),
                   !.last_read_index = 0,
                   !.response_queue  = Tail(@)]
    ELSE m

FetchFromBack(m) ==
    IF m.actual_response = <<>> /\ m.response_queue # <<>>
    THEN [m EXCEPT !.actual_response =
                       @ \o m.response_queue[Len(m.response_queue)],
                   !.response_queue  = SubSeq(@, 1, Len(@) - 1)]
    ELSE m

Fetch(m) ==
    IF m.actual_response = <<>> /\ m.response_queue # <<>>
    THEN [m EXCEPT !.actual_response = @ \o Head(m.response_queue),
                   !.response_queue  = Tail(@)]
    ELSE m

\* actual_response.get(last_read_index) is Some (the index is 0-based)
HasByte(m) == m.last_read_index < Len(m.actual_response)
ByteAt(m) == m.actual_response[m.last_read_index + 1]

\* read, after buff[0] = v
\* (AdvanceKeepsFrame: the stop byte resets the index, the frame is not cleared;
\*  AdvanceNoReset: the stop byte clears the frame, the index still advances;
\*  AdvanceResetsAlways: the index is reset after every byte;
\*  AdvanceSkipsByte: the index advances by two;
\*  AdvanceClearsAtEnd: the frame is cleared only by a stop byte in its last
\*  position)
AdvanceResetsAlways(m, v) ==
    IF v = m.stop_byte
    THEN [m EXCEPT !.last_read_index = 0, !.actual_response = <<>>]
    ELSE [m EXCEPT !.last_read_index = 0]

AdvanceSkipsByte(m, v) ==
    IF v = m.stop_byte
    THEN [m EXCEPT !.last_read_index = 0, !.actual_response = <<>>]
    ELSE [m EXCEPT !.last_read_index = @ + 2]

AdvanceClearsAtEnd(m, v) ==
    IF v = m.stop_byte /\ m.last_read_index + 1 = Len(m.actual_response)
    THEN [m EXCEPT !.last_read_index = 0, !.actual_response = <<>>]
    ELSE [m EXCEPT !.last_read_index = @ + 1]

AdvanceNoReset(m, v) ==
    IF v = m.stop_byte
    THEN [m EXCEPT !.last_read_index = @ + 1, !.actual_response = <<>>]
    ELSE [m EXCEPT !.last_read_index = @ + 1]

AdvanceKeepsFrame(m, v) ==
    IF v = m.stop_byte
    THEN [m EXCEPT !.last_read_index = 0]
    ELSE [m EXCEPT !.last_read_index = @ + 1]

Advance(m, v) ==
    IF v = m.stop_byte
    THEN [m EXCEPT !.last_read_index = 0, !.actual_response = <<>>]
    ELSE [m EXCEPT !.last_read_index = @ + 1]

\* read's result
Outcome(m) == IF m.actual_success THEN "Ok" ELSE "Err"

\* read with a one-byte buffer (read_resp's read_buf = [0; 1])
\* (ReadOpErrOnNone: a missing byte is reported as Err in place of the panic)
ReadOpErrOnNone(m) ==
    LET f == Fetch(m)
    IN  IF ~HasByte(f)
        THEN [self |-> f, ret |-> "Err", byte |-> NoByte]
        ELSE LET v == ByteAt(f)
                 g == Advance(f, v)
             IN  [self |-> g, ret |-> Outcome(g), byte |-> <<v>>]

ReadOp(m) ==
    LET f == Fetch(m)
    IN  IF ~HasByte(f)
        THEN [self |-> f, ret |-> "panic", byte |-> NoByte]
        ELSE LET v == ByteAt(f)
                 g == Advance(f, v)
             IN  [self |-> g, ret |-> Outcome(g), byte |-> <<v>>]

\* MockableSerialBuilder::new
\* (AddEachReversed: the collection is walked from its back)
RECURSIVE AddEachReversed(_, _)
AddEachReversed(m, r_data) ==
    IF r_data = <<>> THEN m
    ELSE AddEachReversed(AddResponseOp(m, r_data[Len(r_data)]),
                         SubSeq(r_data, 1, Len(r_data) - 1))

RECURSIVE AddEach(_, _)
AddEach(m, r_data) ==
    IF r_data = <<>> THEN m
    ELSE AddEach(AddResponseOp(m, Head(r_data)), Tail(r_data))

BuilderNewOp(a, initial_response_data) ==
    LET m == NewOp(a)
    IN  IF initial_response_data.some
        THEN AddEach(m, initial_response_data.data)
        ELSE m

----------------------------------------------------------------------------
(* The state machine *)

NoCtor == [address |-> "", baud |-> 0, stop_byte |-> 0, read_n_bytes |-> 0]
Call(op, id, ret, byte) == [op |-> op, id |-> id, ret |-> ret, byte |-> byte]
Bind(f, h, v) == [x \in DOMAIN f \cup {h} |-> IF x = h THEN v ELSE f[x]]
Empty == [x \in {} |-> <<>>]

\* the frames enqueued so far, summed over the live values
RECURSIVE Total(_, _)
Total(f, S) ==
    IF S = {} THEN 0
    ELSE LET h == CHOOSE x \in S : TRUE
         IN  Len(f[h]) + Total(f, S \ {h})

Init ==
    /\ port = Empty
    /\ ctor = NoCtor
    /\ last = Call("none", "", "none", NoByte)
    /\ enqueued = Empty
    /\ delivered = Empty

\* let m = MockableSerial::new(address, baud, stop_byte, read_n_bytes)
New ==
    /\ DOMAIN port = {}
    /\ \E a \in CtorArgs :
          /\ port' = Bind(port, "m", NewOp(a))
          /\ ctor' = a
    /\ last' = Call("new", "m", "none", NoByte)
    /\ enqueued' = Bind(enqueued, "m", <<>>)
    /\ delivered' = Bind(delivered, "m", <<>>)

\* let m = MockableSerialBuilder::new(address, baud, stop_byte, read_n_bytes, data)
BuilderNew ==
    /\ DOMAIN port = {}
    /\ \E a \in CtorArgs, d \in InitialData :
          /\ port' = Bind(port, "m", BuilderNewOp(a, d))
          /\ ctor' = a
          /\ enqueued' = Bind(enqueued, "m", d.data)
    /\ last' = Call("builder_new", "m", "none", NoByte)
    /\ delivered' = Bind(delivered, "m", <<>>)

\* let port = m.open_native()
OpenNative(src, dst) ==
    /\ src \in DOMAIN port
    /\ dst \notin DOMAIN port
    /\ port' = Bind(port, dst, OpenNativeOp(port[src]))
    /\ last' = Call("open_native", src, "none", NoByte)
    /\ enqueued' = Bind(enqueued, dst, enqueued[src])
    /\ delivered' = Bind(delivered, dst, delivered[src])
    /\ UNCHANGED ctor

\* h.write(&b)
Write(h) ==
    /\ h \in DOMAIN port
    /\ \E b \in WriteData :
          /\ port' = [port EXCEPT ![h] = WriteOp(port[h], b).self]
          /\ last' = Call("write", h, WriteOp(port[h], b).ret, NoByte)
    /\ UNCHANGED <<ctor, enqueued, delivered>>

\* h.add_response(&r)
AddResponse(h) ==
    /\ h \in DOMAIN port
    /\ Total(enqueued, DOMAIN enqueued) < MaxFrames
    /\ \E r \in Frames :
          /\ port' = [port EXCEPT ![h] = AddResponseOp(port[h], r)]
          /\ enqueued' = [enqueued EXCEPT ![h] = Append(@, r)]
    /\ last' = Call("add_response", h, "none", NoByte)
    /\ UNCHANGED <<ctor, delivered>>

\* h.read(&mut read_buf)
Read(h) ==
    /\ h \in DOMAIN port
    /\ LET r == ReadOp(port[h])
       IN  /\ port' = [port EXCEPT ![h] = r.self]
           /\ last' = Call("read", h, r.ret, r.byte)
           /\ delivered' = [delivered EXCEPT ![h] = @ \o r.byte]
    /\ UNCHANGED <<ctor, enqueued>>

Next ==
    \/ New
    \/ BuilderNew
    \/ \E src, dst \in Handles : OpenNative(src, dst)
    \/ \E h \in Handles : Write(h)
    \/ \E h \in Handles : AddResponse(h)
    \/ \E h \in Handles : Read(h)

Spec == Init /\ [][Next]_vars

\* The outcome fields (actual_success, success_queue) are private and no public
\* operation assigns them after new: only code inside the crate, such as its
\* test module, which reaches private fields directly, can schedule an outcome.
\* SetOutcome is that assignment, once per value.
MaxOutcomes == 1
Outcomes == {<<TRUE, "Other">>, <<FALSE, "Other">>}
SetOutcome(h) ==
    /\ h \in DOMAIN port
    /\ port[h].success_queue = <<>>
    /\ port[h].actual_success
    /\ \E q \in SeqsUpTo(Outcomes, MaxOutcomes), a \in BOOLEAN :
          /\ <<q, a>> # <<<<>>, TRUE>>
          /\ port' = [port EXCEPT ![h].success_queue = q,
                                  ![h].actual_success = a]
    /\ last' = Call("set_outcome", h, "none", NoByte)
    /\ UNCHANGED <<ctor, enqueued, delivered>>

NextInjected ==
    \/ Next
    \/ \E h \in Handles : SetOutcome(h)

SpecInjected == Init /\ [][NextInjected]_vars

----------------------------------------------------------------------------
(* Vocabulary of the properties *)

Live == DOMAIN port
IsIdle(m) ==
    m.actual_response = <<>> /\ m.last_read_index = 0 /\ m.response_queue = <<>>
IsPrefix(a, b) == Len(a) <= Len(b) /\ a = SubSeq(b, 1, Len(a))

\* f ends with the stop byte s
Terminated(f, s) == f # <<>> /\ f[Len(f)] = s
\* f holds s exactly once, as its last byte
StopOnlyLast(f, s) ==
    Terminated(f, s) /\ \A i \in 1..(Len(f) - 1) : f[i] # s

\* the position of the first s in d, 0 when d holds none
FirstStop(d, s) ==
    IF \E i \in 1..Len(d) : d[i] = s
    THEN CHOOSE i \in 1..Len(d) : d[i] = s /\ \A j \in 1..(i - 1) : d[j] # s
    ELSE 0

\* d, the bytes delivered so far, read as "frame f1 to its stop byte, then f2"
InFrameOrder(d, f1, f2, s) ==
    LET k == FirstStop(d, s)
    IN  IF k = 0
        THEN IsPrefix(d, f1)
        ELSE /\ SubSeq(d, 1, k) = f1
             /\ LET rest == SubSeq(d, k + 1, Len(d))
                    k2   == FirstStop(rest, s)
                IN  IF k2 = 0
                    THEN IsPrefix(rest, f2)
                    ELSE SubSeq(rest, 1, k2) = f2

----------------------------------------------------------------------------
(* C1 *)

\* C1 as stated: on a value whose first two enqueued frames f1, f2 each end
\* with stop_byte, the bytes delivered up to and including the first stop byte
\* are f1, no byte of f2 comes before f1 is complete, and the bytes up to the
\* next stop byte are f2.  (Refuted: f1 = <<0x23, 0x23>> is delivered as <<0x23>>.)
C1_AsClaimed ==
    \A h \in Live :
        LET e == enqueued[h]
            s == port[h].stop_byte
        IN  (Len(e) >= 2 /\ Terminated(e[1], s) /\ Terminated(e[2], s))
                => InFrameOrder(delivered[h], e[1], e[2], s)

\* C1, amended: the same for two frames that each hold stop_byte exactly once,
\* as their last byte: frame 1 is delivered whole, before any byte of frame 2,
\* and the next read-to-delimiter delivers frame 2 whole.
C1_FifoOrder ==
    \A h \in Live :
        LET e == enqueued[h]
            s == port[h].stop_byte
        IN  (Len(e) >= 2 /\ StopOnlyLast(e[1], s) /\ StopOnlyLast(e[2], s))
                => InFrameOrder(delivered[h], e[1], e[2], s)

\* two different frames, both read to their stop byte
C1_Witness ==
    \E h \in Live :
        LET e == enqueued[h]
            s == port[h].stop_byte
        IN  /\ Len(e) = 2 /\ e[1] # e[2]
            /\ StopOnlyLast(e[1], s) /\ StopOnlyLast(e[2], s)
            /\ delivered[h] = e[1] \o e[2]
            /\ last.op = "read" /\ last.id = h

----------------------------------------------------------------------------
(* C2 *)

\* the read that has just returned the first stop byte of handle h
FirstStopJustRead(h) ==
    /\ last.op = "read" /\ last.id = h /\ last.ret = "Ok"
    /\ last.byte = <<port[h].stop_byte>>
    /\ FirstStop(delivered[h], port[h].stop_byte) = Len(delivered[h])

SingleFrameRead(h, f) ==
    /\ FirstStop(delivered[h], port[h].stop_byte) = 0 => IsPrefix(delivered[h], f)
    /\ FirstStopJustRead(h) =>
          /\ delivered[h] = f
          /\ port[h].actual_response = <<>>
          /\ port[h].last_read_index = 0

\* C2 as stated: a value on which the single frame f, whose last byte is
\* stop_byte, was enqueued delivers f's bytes in order, and when read has
\* returned stop_byte the delivered bytes are f, the active frame is empty and
\* the cursor is 0.  (Refuted: f = <<0x23, 0x23>>.)
C2_AsClaimed ==
    \A h \in Live :
        (Len(enqueued[h]) = 1 /\ Terminated(enqueued[h][1], port[h].stop_byte))
            => SingleFrameRead(h, enqueued[h][1])

\* C2, amended: the same for a frame that holds stop_byte exactly once, as its
\* last byte.
C2_SingleFrame ==
    \A h \in Live :
        (Len(enqueued[h]) = 1 /\ StopOnlyLast(enqueued[h][1], port[h].stop_byte))
            => SingleFrameRead(h, enqueued[h][1])

\* a frame of a data byte and the stop byte, read to its stop byte
C2_Witness ==
    \E h \in Live :
        /\ Len(enqueued[h]) = 1
        /\ StopOnlyLast(enqueued[h][1], port[h].stop_byte)
        /\ Len(enqueued[h][1]) > 1
        /\ FirstStopJustRead(h)
        /\ delivered[h] = enqueued[h][1]

----------------------------------------------------------------------------
(* C3 *)

\* C3: a step of add_response(r) on h appends r, byte for byte, as the new
\* last element of h's queue and changes nothing else: no other field of h,
\* no earlier element of the queue, no other value.
C3_AddResponseAppends ==
    [][last'.op = "add_response" =>
          LET h == last'.id
              r == enqueued'[h][Len(enqueued'[h])]
          IN  /\ enqueued'[h] = Append(enqueued[h], r)
              /\ Len(port'[h].response_queue) = Len(port[h].response_queue) + 1
              /\ port'[h].response_queue[Len(port'[h].response_queue)] = r
              /\ \A i \in 1..Len(port[h].response_queue) :
                    port'[h].response_queue[i] = port[h].response_queue[i]
              /\ port'[h] = [port[h] EXCEPT !.response_queue = port'[h].response_queue]
              /\ \A g \in DOMAIN port \ {h} : port'[g] = port[g]
              /\ DOMAIN port' = DOMAIN port
    ]_vars

\* add_response of a two-byte frame on a value whose active frame is partly read
C3_Witness ==
    /\ last.op = "add_response"
    /\ port[last.id].actual_response # <<>>
    /\ port[last.id].last_read_index > 0
    /\ Len(port[last.id].response_queue) = 1
    /\ Len(port[last.id].response_queue[1]) = 2
    /\ port[last.id].response_queue[1][1] # port[last.id].response_queue[1][2]

----------------------------------------------------------------------------
(* C4 *)

ResultOf(success) == IF success THEN "Ok" ELSE "Err"

\* C4 as stated: a read that returns takes the outcome queued for it from the
\* front of success_queue and reports it; with none queued it reports
\* actual_success and leaves the queue alone.  (Refuted under SpecInjected:
\* read never looks at success_queue.)
C4_AsClaimed ==
    [][(last'.op = "read" /\ last'.ret # "panic") =>
          LET h == last'.id
              q == port[h].success_queue
          IN  IF q # <<>>
              THEN /\ port'[h].success_queue = Tail(q)
                   /\ last'.ret = ResultOf(Head(q)[1])
              ELSE /\ port'[h].success_queue = q
                   /\ last'.ret = ResultOf(port[h].actual_success)
    ]_vars

----------------------------------------------------------------------------
(* C5 *)

\* C5: a step of read on a value whose active frame and queue are both empty
\* panics: it returns neither Ok nor Err, writes no byte, and leaves the value
\* as it was.
C5_EmptyReadPanics ==
    [][(/\ last'.op = "read"
        /\ port[last'.id].actual_response = <<>>
        /\ port[last'.id].response_queue = <<>>) =>
          /\ last'.ret = "panic"
          /\ last'.byte = NoByte
          /\ port'[last'.id] = port[last'.id]
          /\ delivered' = delivered
    ]_vars

\* a read that panicked on a value with nothing active and nothing queued,
\* after an earlier frame was read to its end
C5_Witness ==
    /\ last.op = "read" /\ last.ret = "panic"
    /\ port[last.id].actual_response = <<>>
    /\ port[last.id].response_queue = <<>>
    /\ delivered[last.id] # <<>>

----------------------------------------------------------------------------
(* C6 *)

\* C6: a step of open_native binds a new value whose nine fields equal the
\* source's at the call and leaves the source as it was; and a step of read,
\* add_response or write on one value leaves every other value as it was.
C6_OpenNativeCopies ==
    [][/\ last'.op = "open_native" =>
            LET src == last'.id
            IN  /\ port'[src] = port[src]
                /\ \E dst \in DOMAIN port' \ DOMAIN port :
                      /\ DOMAIN port' = DOMAIN port \cup {dst}
                      /\ port'[dst].address = port[src].address
                      /\ port'[dst].baud = port[src].baud
                      /\ port'[dst].stop_byte = port[src].stop_byte
                      /\ port'[dst].read_n_bytes = port[src].read_n_bytes
                      /\ port'[dst].actual_success = port[src].actual_success
                      /\ port'[dst].actual_response = port[src].actual_response
                      /\ port'[dst].response_queue = port[src].response_queue
                      /\ port'[dst].last_read_index = port[src].last_read_index
                      /\ port'[dst].success_queue = port[src].success_queue
       /\ last'.op \in {"read", "add_response", "write"} =>
            /\ DOMAIN port' = DOMAIN port
            /\ \A g \in DOMAIN port \ {last'.id} : port'[g] = port[g]
    ]_vars

\* a copy taken from a source with a partly read frame and a queued frame, and
\* both values read from since, the copy further than the source
C6_Witness ==
    /\ DOMAIN port = Handles
    /\ enqueued["port"] = enqueued["m"]
    /\ Len(enqueued["m"]) = 2
    /\ delivered["m"] # <<>>
    /\ IsPrefix(delivered["m"], delivered["port"])
    /\ Len(delivered["port"]) > Len(delivered["m"]) + 1
    /\ port["m"].actual_response # <<>>
    /\ port["m"].response_queue # <<>>
    /\ port["port"].response_queue = <<>>

----------------------------------------------------------------------------
(* C7 *)

\* C7: a step of write returns Ok and changes no field of any value.
C7_WriteNoEffect ==
    [][last'.op = "write" =>
          /\ last'.ret = "Ok"
          /\ port' = port
          /\ enqueued' = enqueued
          /\ delivered' = delivered
    ]_vars

\* a write on a value with a partly read frame and a non-empty queue
C7_Witness ==
    /\ last.op = "write" /\ last.ret = "Ok"
    /\ port[last.id].actual_response # <<>>
    /\ port[last.id].last_read_index > 0
    /\ port[last.id].response_queue # <<>>

----------------------------------------------------------------------------
(* C8 *)

\* C8: in every reachable state, every value's address, baud, stop_byte and
\* read_n_bytes are the arguments the constructor was called with.
C8_ConfigFixed ==
    \A h \in Live :
        /\ port[h].address = ctor.address
        /\ port[h].baud = ctor.baud
        /\ port[h].stop_byte = ctor.stop_byte
        /\ port[h].read_n_bytes = ctor.read_n_bytes

\* source and copy, both read from, and a frame added to the copy
C8_Witness ==
    /\ DOMAIN port = Handles
    /\ delivered["m"] # <<>>
    /\ delivered["port"] # delivered["m"]
    /\ enqueued["port"] # enqueued["m"]
    /\ last.op = "write"

----------------------------------------------------------------------------
(* C9 *)

\* new(a) followed by add_response of each frame of fs, in order
RECURSIVE NewThenAdd(_, _)
NewThenAdd(a, fs) ==
    IF fs = <<>> THEN NewOp(a)
    ELSE AddResponseOp(NewThenAdd(a, SubSeq(fs, 1, Len(fs) - 1)), fs[Len(fs)])

\* C9: the value MockableSerialBuilder::new returns has the frames of the
\* initial collection as its queue, in order and byte for byte, an empty active
\* frame and cursor 0; it equals new followed by add_response of each frame,
\* which with no collection is new itself.
C9_BuilderQueue ==
    last.op = "builder_new" =>
        /\ port["m"].response_queue = enqueued["m"]
        /\ port["m"].actual_response = <<>>
        /\ port["m"].last_read_index = 0
        /\ port["m"] = NewThenAdd(ctor, enqueued["m"])
        /\ enqueued["m"] = <<>> => port["m"] = NewOp(ctor)

\* a builder call with two different frames, the first of two different bytes
C9_Witness ==
    /\ last.op = "builder_new"
    /\ Len(port["m"].response_queue) = 2
    /\ port["m"].response_queue[1] # port["m"].response_queue[2]
    /\ Len(port["m"].response_queue[1]) = 2
    /\ port["m"].response_queue[1][1] # port["m"].response_queue[1][2]

----------------------------------------------------------------------------
(* C10 *)

\* C10 as stated: in every reachable state the cursor is a valid index into
\* the active frame, or the active frame is empty and the cursor is 0.
\* (Refuted: after the one byte of the frame <<0x65>> is read, the cursor is 1,
\* the length of the active frame.)
C10_AsClaimed ==
    \A h \in Live :
        \/ port[h].last_read_index < Len(port[h].actual_response)
        \/ port[h].actual_response = <<>> /\ port[h].last_read_index = 0

\* C10, amended: in every reachable state the active frame is empty and the
\* cursor is 0, or the cursor is at most the length of the active frame and no
\* byte before the cursor is stop_byte; so the cursor is a valid index whenever
\* the active frame holds stop_byte, and it equals the length only when every
\* byte of a frame without stop_byte has been delivered.
C10_CursorInRange ==
    \A h \in Live :
        LET m == port[h]
        IN  \/ m.actual_response = <<>> /\ m.last_read_index = 0
            \/ /\ m.actual_response # <<>>
               /\ m.last_read_index <= Len(m.actual_response)
               /\ \A i \in 1..m.last_read_index : m.actual_response[i] # m.stop_byte
               /\ (\E i \in 1..Len(m.actual_response) :
                      m.actual_response[i] = m.stop_byte)
                    => m.last_read_index < Len(m.actual_response)

\* every byte of a two-byte frame without stop_byte has been delivered
C10_Witness ==
    \E h \in Live :
        /\ Len(port[h].actual_response) = 2
        /\ port[h].last_read_index = 2
        /\ last.op = "read" /\ last.id = h /\ last.ret = "Ok"

----------------------------------------------------------------------------
(* C11 *)

\* a step of read on h that returned (Ok or Err) and wrote a byte
ReadReturned(h) ==
    last'.op = "read" /\ last'.id = h /\ last'.ret # "panic"

\* C11 as stated: a read that returns stop_byte leaves the active frame empty
\* and the cursor 0; a read that returns another byte grows the cursor by 1 and
\* leaves the active frame's contents as they were before the call.  (Refuted:
\* a read that starts with an empty active frame installs the front frame.)
C11_AsClaimed ==
    [][\A h \in DOMAIN port : ReadReturned(h) =>
          IF last'.byte = <<port[h].stop_byte>>
          THEN /\ port'[h].actual_response = <<>>
               /\ port'[h].last_read_index = 0
          ELSE /\ port'[h].last_read_index = port[h].last_read_index + 1
               /\ port'[h].actual_response = port[h].actual_response
    ]_vars

\* C11, amended: a read that returns stop_byte leaves the active frame empty
\* and the cursor 0, whatever the queue holds and wherever the stop byte stood
\* in its frame; a read that returns another byte grows the cursor by 1 and
\* leaves the active frame as it was, or, when the active frame was empty at
\* the call, as the front frame it pulled from the queue.
C11_StopResets ==
    [][\A h \in DOMAIN port : ReadReturned(h) =>
          IF last'.byte = <<port[h].stop_byte>>
          THEN /\ port'[h].actual_response = <<>>
               /\ port'[h].last_read_index = 0
          ELSE /\ port'[h].last_read_index = port[h].last_read_index + 1
               /\ port'[h].actual_response =
                     IF port[h].actual_response = <<>>
                     THEN port[h].response_queue[1]
                     ELSE port[h].actual_response
    ]_vars

\* a read returned the stop byte that stands first in a two-byte frame, with
\* another frame queued
C11_Witness ==
    \E h \in Live :
        /\ last.op = "read" /\ last.id = h /\ last.ret = "Ok"
        /\ last.byte = <<port[h].stop_byte>>
        /\ Len(enqueued[h]) = 2
        /\ enqueued[h][1] = <<port[h].stop_byte, 101>>
        /\ delivered[h] = <<port[h].stop_byte>>
        /\ port[h].response_queue # <<>>
        /\ port[h].actual_response = <<>>

----------------------------------------------------------------------------
(* C12 *)

\* C12: a step of read removes a frame from the queue only when the active
\* frame is empty and the queue is not, at the call, and then removes exactly
\* the front frame; every other read leaves the queue as it was.
C12_PullOnlyWhenEmpty ==
    [][\A h \in DOMAIN port : (last'.op = "read" /\ last'.id = h) =>
          IF port[h].actual_response = <<>> /\ port[h].response_queue # <<>>
          THEN /\ Len(port'[h].response_queue) = Len(port[h].response_queue) - 1
               /\ \A i \in 1..Len(port'[h].response_queue) :
                     port'[h].response_queue[i] = port[h].response_queue[i + 1]
          ELSE port'[h].response_queue = port[h].response_queue
    ]_vars

\* a read delivered the second byte of a frame while another frame is queued
C12_Witness ==
    \E h \in Live :
        /\ last.op = "read" /\ last.id = h /\ last.ret = "Ok"
        /\ port[h].last_read_index = 2
        /\ port[h].actual_response # <<>>
        /\ port[h].response_queue # <<>>

----------------------------------------------------------------------------
(* C13 *)

\* C13: in every state an empty active frame has cursor 0, and a step of read
\* that pulls a non-empty frame from the queue finds the cursor at 0 and
\* delivers that frame's first byte.
C13_PullStartsAtZero ==
    [][\A h \in DOMAIN port :
          /\ port[h].actual_response = <<>> => port[h].last_read_index = 0
          /\ (/\ last'.op = "read" /\ last'.id = h
              /\ port[h].actual_response = <<>>
              /\ port[h].response_queue # <<>>
              /\ port[h].response_queue[1] # <<>>) =>
                /\ port[h].last_read_index = 0
                /\ last'.byte = <<port[h].response_queue[1][1]>>
    ]_vars

\* the second frame was pulled after the first was read to its stop byte
C13_Witness ==
    \E h \in Live :
        /\ last.op = "read" /\ last.id = h /\ last.ret = "Ok"
        /\ Len(enqueued[h]) = 2
        /\ enqueued[h][1] = <<101, port[h].stop_byte>>
        /\ Len(enqueued[h][2]) = 2
        /\ delivered[h] = enqueued[h][1] \o <<enqueued[h][2][1]>>

----------------------------------------------------------------------------
(* C14 *)

\* C14: a step of read that starts with an empty active frame and an empty
\* frame at the front of the queue panics, whatever is queued behind it.
C14_EmptyFramePanics ==
    [][\A h \in DOMAIN port :
          (/\ last'.op = "read" /\ last'.id = h
           /\ port[h].actual_response = <<>>
           /\ port[h].response_queue # <<>>
           /\ port[h].response_queue[1] = <<>>) =>
             /\ last'.ret = "panic"
             /\ last'.byte = NoByte
             /\ delivered'[h] = delivered[h]
    ]_vars

\* the read of an empty frame panicked with a non-empty frame queued behind it
C14_Witness ==
    \E h \in Live :
        /\ last.op = "read" /\ last.id = h /\ last.ret = "panic"
        /\ Len(enqueued[h]) = 2
        /\ enqueued[h][1] = <<>>
        /\ enqueued[h][2] # <<>>
        /\ port[h].response_queue = <<enqueued[h][2]>>
        /\ delivered[h] = <<>>

----------------------------------------------------------------------------
(* C15 *)

\* the frames of q laid end to end
RECURSIVE Flatten(_)
Flatten(q) == IF q = <<>> THEN <<>> ELSE Head(q) \o Flatten(Tail(q))

\* the bytes a value still holds: the active frame from the cursor on, then
\* the queued frames
Undelivered(m) ==
    SubSeq(m.actual_response, m.last_read_index + 1, Len(m.actual_response))
        \o Flatten(m.response_queue)

\* every frame enqueued on h holds stop_byte exactly once, as its last byte
AllGood(h) ==
    \A i \in 1..Len(enqueued[h]) : StopOnlyLast(enqueued[h][i], port[h].stop_byte)

\* C15: while every frame enqueued on a value holds stop_byte exactly once, as
\* its last byte, the bytes delivered so far followed by the bytes the value
\* still holds are the enqueued frames laid end to end, in enqueue order: the
\* delivered bytes are a prefix of that stream, none lost, repeated or reordered.
C15_FlatFifo ==
    \A h \in Live :
        AllGood(h) =>
            /\ delivered[h] \o Undelivered(port[h]) = Flatten(enqueued[h])
            /\ IsPrefix(delivered[h], Flatten(enqueued[h]))

\* the second frame was enqueued while the first, of two bytes, was partly read
C15_Witness ==
    \E h \in Live :
        /\ AllGood(h)
        /\ Len(enqueued[h]) = 2
        /\ Len(enqueued[h][1]) = 2
        /\ delivered[h] = <<101>>
        /\ port[h].last_read_index = 1
        /\ port[h].response_queue = <<enqueued[h][2]>>
        /\ last.op = "add_response" /\ last.id = h

----------------------------------------------------------------------------
(* C16 *)

\* C16: on a value whose enqueued frames each hold stop_byte exactly once, as
\* their last byte, the value is idle exactly when it holds no undelivered
\* byte; a read with n > 0 undelivered bytes does not panic and leaves n - 1,
\* and a read with none panics.  So with no further add_response, exactly n
\* reads reach the idle state, none of them panics, and the next read panics.
C16_ReadsCountDown ==
    [][\A h \in DOMAIN port : AllGood(h) =>
          LET n == Len(Undelivered(port[h]))
          IN  /\ (n = 0) <=> IsIdle(port[h])
              /\ (last'.op = "read" /\ last'.id = h) =>
                    IF n > 0
                    THEN /\ last'.ret = "Ok"
                         /\ Len(Undelivered(port'[h])) = n - 1
                    ELSE /\ last'.ret = "panic"
                         /\ IsIdle(port'[h])
    ]_vars

\* two frames, three bytes in all, were read to the end and the next read
\* panicked on the idle value
C16_Witness ==
    \E h \in Live :
        /\ AllGood(h)
        /\ Len(enqueued[h]) = 2
        /\ Len(delivered[h]) = 3
        /\ delivered[h] = Flatten(enqueued[h])
        /\ IsIdle(port[h])
        /\ last.op = "read" /\ last.id = h /\ last.ret = "panic"

----------------------------------------------------------------------------
(* C17 *)

\* every byte of the active frame has been delivered and the frame is still
\* active: it held no stop_byte
Stuck(m) ==
    m.actual_response # <<>> /\ m.last_read_index = Len(m.actual_response)

\* C17: once a value is stuck, every step leaves its active frame and cursor
\* as they are, delivers no further byte from it and removes no frame from its
\* queue; every read of it panics, also with a non-empty queue, and
\* add_response only lengthens the queue.
C17_StuckForever ==
    [][\A h \in DOMAIN port : Stuck(port[h]) =>
          /\ port'[h].actual_response = port[h].actual_response
          /\ port'[h].last_read_index = port[h].last_read_index
          /\ Stuck(port'[h])
          /\ delivered'[h] = delivered[h]
          /\ IsPrefix(port[h].response_queue, port'[h].response_queue)
          /\ (last'.op = "read" /\ last'.id = h) =>
                /\ last'.ret = "panic"
                /\ port'[h].response_queue = port[h].response_queue
    ]_vars

\* a read panicked on a stuck value that has a frame queued, enqueued after
\* the frame without stop byte was read to its end
C17_Witness ==
    \E h \in Live :
        /\ Stuck(port[h])
        /\ port[h].response_queue # <<>>
        /\ delivered[h] = enqueued[h][1]
        /\ last.op = "read" /\ last.id = h /\ last.ret = "panic"

----------------------------------------------------------------------------
(* C18 *)

\* f up to and including its first s; f itself when it holds none
Cut(f, s) == IF FirstStop(f, s) = 0 THEN f ELSE SubSeq(f, 1, FirstStop(f, s))

\* the bytes the frames e can ever deliver: each frame up to its first stop
\* byte, and nothing after a non-empty frame without one
RECURSIVE Deliverable(_, _)
Deliverable(e, s) ==
    IF e = <<>> THEN <<>>
    ELSE IF Head(e) # <<>> /\ FirstStop(Head(e), s) = 0 THEN Head(e)
    ELSE Cut(Head(e), s) \o Deliverable(Tail(e), s)

\* the frame a read of m takes its byte from
FrameRead(m) ==
    IF m.actual_response = <<>> /\ m.response_queue # <<>>
    THEN m.response_queue[1] ELSE m.actual_response

\* C18: after every read that returns, the bytes delivered are a prefix of the
\* enqueued frames, each cut after its first stop_byte: the bytes behind it are
\* never delivered (only a read that returns delivers a byte).  A
\* read that returns a stop_byte standing before the last position of its
\* frame drops the rest of that frame (the active frame is empty, the cursor
\* 0, the queue holds only the frames behind it), and the read after it takes
\* the first byte of the next queued frame, or panics when the queue is empty.
C18_RestDiscarded ==
    [][(last'.op = "read") =>
          LET h == last'.id
              m == port[h]
              f == FrameRead(m)
          IN  /\ last'.ret # "panic" =>
                    IsPrefix(delivered'[h],
                             Deliverable(enqueued'[h], port'[h].stop_byte))
              /\ (/\ last'.byte = <<m.stop_byte>>
                  /\ m.last_read_index + 1 < Len(f)) =>
                    /\ port'[h].actual_response = <<>>
                    /\ port'[h].last_read_index = 0
                    /\ Undelivered(port'[h]) =
                         Flatten(IF m.actual_response = <<>>
                                 THEN Tail(m.response_queue)
                                 ELSE m.response_queue)
              /\ (m.actual_response = <<>> /\ m.last_read_index = 0) =>
                    IF m.response_queue = <<>> \/ m.response_queue[1] = <<>>
                    THEN last'.ret = "panic"
                    ELSE last'.byte = <<m.response_queue[1][1]>>
    ]_vars

\* the frame <<0x23, 0x65>> was cut after its stop byte and the next frame
\* read to its end
C18_Witness ==
    \E h \in Live :
        /\ Len(enqueued[h]) = 2
        /\ enqueued[h][1] = <<port[h].stop_byte, 101>>
        /\ enqueued[h][2] = <<101, port[h].stop_byte>>
        /\ delivered[h] = <<port[h].stop_byte, 101, port[h].stop_byte>>
        /\ last.op = "read" /\ last.id = h /\ last.ret = "Ok"

----------------------------------------------------------------------------
(* C19 *)

\* C19: in every state the public operations reach, every value has
\* actual_success true and an empty success_queue, and no read has returned
\* Err: a read returns Ok or panics.
C19_NeverErr ==
    /\ \A h \in Live :
          /\ port[h].actual_success
          /\ port[h].success_queue = <<>>
    /\ last.op = "read" => last.ret \in {"Ok", "panic"}
    /\ last.ret # "Err"

\* a read on the copy returned Ok after the source was read from and written to
C19_Witness ==
    /\ DOMAIN port = Handles
    /\ last.op = "read" /\ last.id = "port" /\ last.ret = "Ok"
    /\ delivered["m"] # <<>>
    /\ Len(delivered["port"]) > Len(delivered["m"])

====
